---- MODULE Spec2Model ----
(***************************************************************************)
(* Model of irlib's IR-basis construction (kernel.hpp:                     *)
(* generate_ir_basis_functions, generate_ir_basis_functions_impl) and of   *)
(* the read operations of ir_basis_set (basis.hpp).                        *)
(*                                                                         *)
(* Numbers.  Arbitrary-precision singular values are the naturals          *)
(* 0..MaxSV; a double is an even natural and static_cast<double> rounds to *)
(* the nearest even number (toDouble).  The cutoff is the rational         *)
(* cutNum / CutDen.  An evaluation argument x is the integer X with        *)
(* x = X / XMax, so the domain [-1,1] is -XMax..XMax.                      *)
(***************************************************************************)
EXTENDS Integers, Sequences, FiniteSets, TLC

\* ------------------------------------------------------------------ bounds
\* largest max_dim argument tried (the smallest is -1)
MaxDim == 3
\* largest arbitrary-precision singular value
MaxSV == 3
\* denominator of the cutoff argument: cutoff = cutNum / CutDen
CutDen == 2
\* largest Nl argument tried (the smallest is -1)
MaxNl == 2
\* the evaluation grid: x = X / XMax
XMax == 1
\* stand-in for 2^64, the modulus of size_t arithmetic
SizeMod == 256

\* ---------------------------------------------------------------- program constants
\* kernel.hpp:362  std::max(..., 100)
MinPrecFloor == 100
\* precision of mpreal before any construction raised it
StartPrec == 53

VARIABLES
    ndebug,      \* build: TRUE when assert() is compiled out (NDEBUG)
    max_dim,     \* argument max_dim
    cutNum,      \* argument cutoff (sv_cutoff) = cutNum / CutDen
    Nl,          \* argument Nl
    prec,        \* mpreal default precision (process wide)
    pc,          \* position of the construction
    num_sec,     \* section_edges_x.size() - 1
    sv_even,     \* svd_even.singularValues()
    sv_odd,      \* svd_odd.singularValues()
    i,           \* loop variable of the merge loop (1-based here)
    sv,          \* local sv (doubles)
    Uvec,        \* local Uvec: the columns picked from matrixU()
    Vvec,        \* local Vvec: the columns picked from matrixV()
    cols,        \* what the picked columns hold, once gen_pp has read them
    u_basis_pp,  \* local u_basis_pp
    v_basis_pp,  \* local v_basis_pp
    sv_,         \* ir_basis_set::sv_
    u_basis_,    \* ir_basis_set::u_basis_
    v_basis_,    \* ir_basis_set::v_basis_
    result,      \* how the construction ended
    ret          \* the last read operation and what it gave

\* The parts of the program that are followed on their own, each under a
\* specification of its own, have variables of their own.
VARIABLES
    epc,               \* section edges: position
    converged,         \* section edges: whether the node estimator converged
    nodes,             \* nodes_x, nodes_y (kernel.hpp:369)
    section_edges,     \* section_edges_x, section_edges_y (kernel.hpp:381-382)
    section_edges_pp,  \* gen_pp's section_edges_pp, for u and for v
    thr,               \* working width: the constructions running in the threads
    statistics_,       \* ir_basis_set::statistics_
    calls,             \* read operations: the call each reader thread is in
    kern,              \* kernel: the kernel object
    cloned,            \* kernel: what clone() returned
    evaluated,         \* kernel: the last evaluation
    gen,               \* gen_pp: its arguments, locals and position
    mrep               \* matrix_rep: its arguments, locals and position

edgeVars == <<epc, converged, nodes, section_edges, section_edges_pp>>
precVars == <<thr>>
readVars == <<statistics_, calls>>
kernVars == <<kern, cloned, evaluated>>
genVars == <<gen>>
matVars == <<mrep>>

\* the construction and the read operations of one basis
mainVars == <<ndebug, max_dim, cutNum, Nl, prec, pc, num_sec, sv_even, sv_odd, i,
              sv, Uvec, Vvec, cols, u_basis_pp, v_basis_pp, sv_, u_basis_, v_basis_,
              result, ret>>

\* what the construction of one basis leaves alone
aside == <<edgeVars, precVars, readVars, kernVars, genVars, matVars>>

\* what each part leaves alone of the other parts
besideEdges == <<precVars, readVars, kernVars, genVars, matVars>>
besidePrec == <<edgeVars, readVars, kernVars, genVars, matVars>>
besideReads == <<edgeVars, precVars, kernVars, genVars, matVars>>
besideKern == <<edgeVars, precVars, readVars, genVars, matVars>>
besideGen == <<edgeVars, precVars, readVars, kernVars, matVars>>
besideMat == <<edgeVars, precVars, readVars, kernVars, genVars>>

vars == <<mainVars, aside>>

args == <<ndebug, max_dim, cutNum, Nl>>
svds == <<num_sec, sv_even, sv_odd>>
locals == <<sv, Uvec, Vvec, cols, u_basis_pp, v_basis_pp>>
fields == <<sv_, u_basis_, v_basis_>>

\* ---------------------------------------------------------------- helpers
\* static_cast<double>(mpreal): round to the nearest double (ties up)
toDouble(x) == 2 * ((x + 1) \div 2)

\* conversion of an int to size_t
toSizeT(n) == n % SizeMod

\* variant of BelowCutoff: the value itself, not its ratio to s0, is compared
BelowAbsoluteCutoff(s, ref) == s * CutDen < cutNum

\* svd.singularValues()[k] / s0 < sv_cutoff, for s0 > 0
BelowCutoff(s, ref) == s * CutDen < cutNum * ref

\* the non-increasing sequences of length n over 0..top: what
\* singularValues() of a decomposition can be
RECURSIVE Descending(_, _)
Descending(n, top) ==
    IF n = 0 THEN {<<>>}
    ELSE UNION {{<<h>> \o t : t \in Descending(n - 1, h)} : h \in 0..top}

\* assert(cond) aborts the process unless the build defines NDEBUG
AssertFails(cond) == ~ndebug /\ ~cond

\* what the spec calls a valid configuration (section 6, section 7)
ValidConfig == max_dim >= 1 /\ cutNum > 0 /\ cutNum < CutDen /\ Nl >= 1

NoRet == [op |-> "none", l |-> 0, x |-> 0, outcome |-> "none", value |-> 0]

Axes == {"x", "y"}

\* the section edges are not followed
EdgesIdle ==
    /\ epc = "idle" /\ converged = FALSE
    /\ nodes = [a \in Axes |-> <<>>]
    /\ section_edges = [a \in Axes |-> <<>>]
    /\ section_edges_pp = [a \in Axes |-> <<>>]

\* the threads that construct bases at the same time
NumThreads == 2
Threads == 1..NumThreads

IdleThread == [pc |-> "idle", cutExp |-> 0, min_prec |-> 0, seen |-> 0, width0 |-> 0]

\* no thread is followed
PrecIdle == thr = [t \in Threads |-> IdleThread]

\* the threads that read one constructed basis at the same time
Readers == {"r1", "r2"}

NoCall == [op |-> "none", l |-> 0, x |-> 0, n |-> <<>>,
           expected |-> [outcome |-> "none", value |-> 0]]

\* no reader is followed
ReadsIdle == statistics_ = "none" /\ calls = [t \in Readers |-> NoCall]

NoKernel == [statistics |-> "none", Lambda |-> 0]
NoValue == [of |-> "none", kernel |-> NoKernel, x |-> 0, y |-> [m |-> 0, e |-> 0], form |-> "none"]
KernelIdle == kern = NoKernel /\ cloned = NoKernel /\ evaluated = NoValue

NoGen == [pc |-> "idle", section_edges |-> <<>>, Nl |-> 0, vectors_size |-> 0,
          section_edges_pp |-> <<>>, ns_pp |-> 0, v |-> 0, s |-> 0, l |-> 0,
          coeff |-> <<>>, pp |-> <<>>]
GenIdle == gen = NoGen

NoMatrix == [pc |-> "idle", len_x |-> 0, len_y |-> 0, num_local_nodes |-> 0, Nl |-> 0,
             num_sec |-> 0, nodes_x_size |-> 0, nodes_y_size |-> 0, s |-> 0, s2 |-> 0,
             K_mat |-> <<>>]
MatrixIdle == mrep = NoMatrix

AsideIdle == EdgesIdle /\ PrecIdle /\ ReadsIdle /\ KernelIdle /\ GenIdle /\ MatrixIdle

Init ==
    /\ ndebug \in BOOLEAN
    /\ max_dim \in -1..MaxDim
    /\ cutNum \in 0..CutDen
    /\ Nl \in -1..MaxNl
    /\ prec = StartPrec
    /\ pc = "start"
    /\ num_sec = 0
    /\ sv_even = <<>>
    /\ sv_odd = <<>>
    /\ i = 0
    /\ sv = <<>>
    /\ Uvec = <<>>
    /\ Vvec = <<>>
    /\ cols = <<>>
    /\ u_basis_pp = <<>>
    /\ v_basis_pp = <<>>
    /\ sv_ = <<>>
    /\ u_basis_ = <<>>
    /\ v_basis_ = <<>>
    /\ result = "none"
    /\ ret = NoRet
    /\ AsideIdle

\* The construction returns, throws or dies: its arguments and the locals of
\* generate_ir_basis_functions and generate_ir_basis_functions_impl are gone.
FrameEnds ==
    /\ max_dim' = 0 /\ cutNum' = 0 /\ Nl' = 0
    /\ num_sec' = 0 /\ sv_even' = <<>> /\ sv_odd' = <<>> /\ i' = 0
    /\ sv' = <<>> /\ Uvec' = <<>> /\ Vvec' = <<>> /\ cols' = <<>>
    /\ u_basis_pp' = <<>> /\ v_basis_pp' = <<>>

\* ------------------------------------------------ generate_ir_basis_functions
\* kernel.hpp:360-366.  For cutoff <= 0, log10(1/sv_cutoff) is inf or NaN and
\* its conversion to int is undefined: min_prec is then any int.
SetPrecision ==
    /\ pc = "start"
    /\ \E min_prec \in (IF cutNum > 0 THEN {MinPrecFloor}
                        ELSE {MinPrecFloor, 2 * MinPrecFloor}) :
          prec' = IF min_prec > prec THEN min_prec ELSE prec
    /\ pc' = "nodes"
    /\ UNCHANGED <<aside, args, svds, i, locals, fields, result, ret>>

\* kernel.hpp:368-382.  gen_section_edges makes one section more than the
\* estimator (detail/aux.hpp) returns nodes; the estimator is taken to return
\* no node inside (0,1), so that [0,1] is one section.
EstimateNodes ==
    /\ pc = "nodes"
    /\ num_sec' = 1
    /\ pc' = "svd"
    /\ UNCHANGED <<aside, args, prec, sv_even, sv_odd, i, locals, fields, result, ret>>

\* kernel.hpp:245-257.  matrix_rep gives a (num_sec*Nl)-square matrix for each
\* sector; BDCSVD gives its singular values, non-increasing and >= 0.  The
\* even kernel is positive, so its leading singular value s0 is > 0.
\* With Nl <= 0 the matrices have no entry (or a negative size) and
\* singularValues()[0] reads outside the vector.
ComputeSVD ==
    /\ pc = "svd"
    /\ IF Nl <= 0
       THEN /\ pc' = "failed"
            /\ result' = "crash"
            /\ FrameEnds
       ELSE /\ sv_even' \in {s \in Descending(num_sec * Nl, MaxSV) : s[1] >= 1}
            /\ sv_odd' \in Descending(num_sec * Nl, MaxSV)
            /\ i' = 1
            /\ pc' = "merge"
            /\ UNCHANGED <<max_dim, cutNum, Nl, num_sec, locals, result>>
    /\ UNCHANGED <<aside, ndebug, prec, fields, ret>>

\* ------------------------------------------- generate_ir_basis_functions_impl
\* Column k of matrixU() (mat = "U") or matrixV() (mat = "V") of a sector
Column(sector, k, mat) == [sector |-> sector, col |-> k, mat |-> mat]

\* variant of s0: the reference taken from the odd decomposition
s0FromOdd == sv_odd[1]

\* kernel.hpp:257  auto s0 = svd_even.singularValues()[0]
s0 == sv_even[1]

\* kernel.hpp:259, 265  sv.size() == max_dim (max_dim is converted to size_t)
MaxDimReached(s) == Len(s) = toSizeT(max_dim)

\* kernel.hpp:259
StopAtEven(s, k) == MaxDimReached(s) \/ BelowCutoff(sv_even[k], s0)

\* variant of StopAtOdd: the size test left out of the second test
StopAtOddNoSize(s, k) == BelowCutoff(sv_odd[k], s0)

\* kernel.hpp:265
StopAtOdd(s, k) == MaxDimReached(s) \/ BelowCutoff(sv_odd[k], s0)

\* kernel.hpp:262-264  what the three push_back of the even sector append
EvenTriple(k) ==
    [s |-> toDouble(sv_even[k]), u |-> Column("even", k, "U"), v |-> Column("even", k, "V")]

\* variant of OddTriple: the right vector taken from the even decomposition
OddTripleMixed(k) ==
    [s |-> toDouble(sv_odd[k]), u |-> Column("odd", k, "U"), v |-> Column("even", k, "V")]

\* kernel.hpp:268-270  what the three push_back of the odd sector append
OddTriple(k) ==
    [s |-> toDouble(sv_odd[k]), u |-> Column("odd", k, "U"), v |-> Column("odd", k, "V")]

\* kernel.hpp:258-271, one pass of the loop body
MergeIter ==
    /\ pc = "merge"
    /\ i <= Len(sv_even)
    /\ IF StopAtEven(sv, i)
       THEN /\ pc' = "check"
            /\ UNCHANGED <<i, sv, Uvec, Vvec>>
       ELSE LET sv1 == Append(sv, EvenTriple(i).s)
                U1 == Append(Uvec, EvenTriple(i).u)
                V1 == Append(Vvec, EvenTriple(i).v)
            IN  IF StopAtOdd(sv1, i)
                THEN /\ sv' = sv1 /\ Uvec' = U1 /\ Vvec' = V1
                     /\ pc' = "check"
                     /\ UNCHANGED i
                ELSE /\ sv' = Append(sv1, OddTriple(i).s)
                     /\ Uvec' = Append(U1, OddTriple(i).u)
                     /\ Vvec' = Append(V1, OddTriple(i).v)
                     /\ i' = i + 1
                     /\ UNCHANGED pc
    /\ UNCHANGED <<aside, args, prec, svds, cols, u_basis_pp, v_basis_pp, fields, result, ret>>

\* kernel.hpp:258, the loop condition fails; kernel.hpp:272, the assertion
\* sv.size() <= max_dim compares as size_t
MergeExit ==
    /\ pc = "merge"
    /\ i > Len(sv_even)
    /\ IF AssertFails(Len(sv) <= toSizeT(max_dim))
       THEN pc' = "failed" /\ result' = "abort" /\ FrameEnds
       ELSE pc' = "check" /\ UNCHANGED <<max_dim, cutNum, Nl, svds, i, locals, result>>
    /\ UNCHANGED <<aside, ndebug, prec, fields, ret>>

\* variant of Unsorted: the loop stops one pair early
UnsortedButLast(s) == \E l \in 1..(Len(s) - 2) : s[l] < s[l + 1]

\* kernel.hpp:276  sv[l] < sv[l+1] for some l the loop visits
Unsorted(s) == \E l \in 1..(Len(s) - 1) : s[l] < s[l + 1]

\* kernel.hpp:275  the loop bound sv.size()-1, computed in size_t
CheckBound(s) == toSizeT(Len(s) - 1)

\* kernel.hpp:274-279.  With an empty sv the bound wraps and sv[0], sv[1] are
\* read outside the vector: the read faults or gives garbage that throws.
\* The decompositions' singular values, the cutoff and the loop variable are
\* not read after this check: the model forgets them here.
CheckOrder ==
    /\ pc = "check"
    /\ IF CheckBound(sv) > Len(sv) - 1
       THEN /\ pc' = "failed"
            /\ result' \in {"crash", "NumericalInstabilityError"}
            /\ FrameEnds
       ELSE IF Unsorted(sv)
       THEN /\ pc' = "failed"
            /\ result' = "NumericalInstabilityError"
            /\ FrameEnds
       ELSE /\ pc' = "genpp"
            /\ cutNum' = 0 /\ sv_even' = <<>> /\ sv_odd' = <<>> /\ i' = 0
            /\ UNCHANGED <<max_dim, Nl, num_sec, locals, result>>
    /\ UNCHANGED <<aside, ndebug, prec, fields, ret>>

\* ------------------------------------------------------ piecewise polynomials
\* A piecewise polynomial on [-1,1] is kept as the table of its values on the
\* grid -XMax..XMax.
Grid == -XMax..XMax

\* piecewise_polynomial::compute_value(x), for x on the grid
ComputeValue(pp, X) == pp[X]

\* c * pp  (operator* of piecewise_polynomial)
Scale(c, pp) == [X \in DOMAIN pp |-> c * pp[X]]

\* What the picked columns hold.  The model keeps, of each vector, its sign
\* sgn (an SVD fixes a singular pair only up to a common sign of its two
\* vectors) and res, the value at x = 0 of the function the vector expands:
\* not 0 in the even sector; in the odd sector the computed expansions cancel
\* to an exact 0 or leave a rounding residue (in all columns of the
\* decomposition or in none).  The columns are first read by gen_pp, so what
\* they hold is drawn there.
PickedContents(columns) ==
    {[k \in 1..Len(columns) |->
        [sgn |-> sg[k], res |-> IF columns[k].sector = "odd" THEN r ELSE 1]] :
        sg \in [1..Len(columns) -> {-1, 1}], r \in {0, 1}}

\* the vectors of a list of picked columns, with what they hold
Filled(columns, c) ==
    [k \in 1..Len(columns) |->
        [mat |-> columns[k].mat, sgn |-> c[k].sgn, res |-> c[k].res]]

\* value at X >= 0 of the function whose Legendre coefficients, section by
\* section of [0,1], are the vector vec; a left and a right singular vector
\* expand different functions
HalfValue(vec, X) == vec.sgn * ((IF vec.mat = "V" THEN 2 ELSE 1) * X + vec.res)

\* kernel.hpp:309  int parity = v%2 == 0 ? 1 : -1  (v is 0-based there)
Parity(v) == IF (v - 1) % 2 = 0 THEN 1 ELSE -1

\* kernel.hpp:290-330  gen_pp: the power series of half-domain section s goes
\* to the section of [0,1] and its parity-flipped copy to the mirrored section
gen_pp(vectors) ==
    [v \in 1..Len(vectors) |->
        [X \in Grid |-> IF X >= 0 THEN HalfValue(vectors[v], X)
                        ELSE Parity(v) * HalfValue(vectors[v], -X)]]

\* kernel.hpp:332-333
GenPP ==
    /\ pc = "genpp"
    /\ \E c \in PickedContents(Uvec) :
          /\ cols' = c
          /\ u_basis_pp' = gen_pp(Filled(Uvec, c))
          /\ v_basis_pp' = gen_pp(Filled(Vvec, c))
    /\ pc' = "sign"
    /\ UNCHANGED <<aside, args, prec, svds, i, sv, Uvec, Vvec, fields, result, ret>>

\* kernel.hpp:336  u_basis_pp[i].compute_value(1) < 0
NeedsFlip(pp) == ComputeValue(pp, XMax) < 0

\* kernel.hpp:337
FlipU(k) == IF NeedsFlip(u_basis_pp[k]) THEN Scale(-1, u_basis_pp[k]) ELSE u_basis_pp[k]

\* variant of FlipV: v_basis_pp is left as it is
FlipVNever(k) == v_basis_pp[k]

\* kernel.hpp:338
FlipV(k) == IF NeedsFlip(u_basis_pp[k]) THEN Scale(-1, v_basis_pp[k]) ELSE v_basis_pp[k]

\* kernel.hpp:335-342, the whole loop and the return
NormalizeSigns ==
    /\ pc = "sign"
    /\ u_basis_pp' = [k \in 1..Len(u_basis_pp) |-> FlipU(k)]
    /\ v_basis_pp' = [k \in 1..Len(u_basis_pp) |-> FlipV(k)]
    /\ pc' = "built"
    /\ UNCHANGED <<aside, args, prec, svds, i, sv, Uvec, Vvec, cols, fields, result, ret>>

\* basis.hpp:33-38  the constructor takes the tuple and checks the basis is
\* not empty; its arguments and the locals of the pipeline end with it.
Construct ==
    /\ pc = "built"
    /\ IF AssertFails(Len(u_basis_pp) > 0)
       THEN /\ pc' = "failed"
            /\ result' = "abort"
            /\ UNCHANGED fields
       ELSE /\ sv_' = sv
            /\ u_basis_' = u_basis_pp
            /\ v_basis_' = v_basis_pp
            /\ pc' = "done"
            /\ result' = "ok"
    /\ FrameEnds
    /\ UNCHANGED <<aside, ndebug, prec, ret>>

\* ------------------------------------------------------------- ir_basis_set
\* basis.hpp:153  int dim() const
dim == Len(u_basis_)

\* l >= 0 && l < dim()
InRange(l) == l >= 0 /\ l < dim

\* x >= -1 && x <= 1
InDomain(X) == X >= -XMax /\ X <= XMax

\* python_runtime_check(cond, message) (common.hpp): raises
\* std::runtime_error(message) when cond is false
PythonRuntimeCheckFails(cond) == ~cond

Outcome(kind, value) == [outcome |-> kind, value |-> value]

\* basis.hpp:52-56.  Vectors are 0-based in the code, sequences 1-based here.
sl(l) ==
    IF AssertFails(InRange(l)) THEN Outcome("abort", 0)
    ELSE IF PythonRuntimeCheckFails(InRange(l)) THEN Outcome("RangeError", 0)
    ELSE Outcome("value", sv_[l + 1])

\* variant of Reflected: the sign (-1)^l is left out
ReflectedNoSign(pp, l, X) == ComputeValue(pp, IF X >= 0 THEN X ELSE -X)

\* basis.hpp:95-99 and 119-123: the reflected evaluation
Reflected(pp, l, X) ==
    IF X >= 0 THEN ComputeValue(pp, X)
    ELSE ComputeValue(pp, -X) * (IF l % 2 = 0 THEN 1 ELSE -1)

\* basis.hpp:83-100 (ulx) and 108-124 (vly) on the basis functions fs
EvalChecked(fs, l, X) ==
    IF AssertFails(InDomain(X)) \/ AssertFails(InRange(l)) THEN Outcome("abort", 0)
    ELSE IF PythonRuntimeCheckFails(InRange(l)) THEN Outcome("RangeError", 0)
    ELSE IF PythonRuntimeCheckFails(InDomain(X)) THEN Outcome("DomainError", 0)
    ELSE IF l < 0 \/ l >= dim THEN Outcome("RangeError", 0)
    ELSE IF X < -XMax \/ X > XMax THEN Outcome("DomainError", 0)
    ELSE Outcome("value", Reflected(fs[l + 1], l, X))

\* basis.hpp:83-100
ulx(l, X) == EvalChecked(u_basis_, l, X)

\* basis.hpp:108-124
vly(l, Y) == EvalChecked(v_basis_, l, Y)

\* basis.hpp:131-141 (ul, vl) on the basis functions fs
RefChecked(fs, l) ==
    IF AssertFails(InRange(l)) THEN Outcome("abort", 0)
    ELSE IF PythonRuntimeCheckFails(InRange(l)) THEN Outcome("RangeError", 0)
    ELSE Outcome("value", fs[l + 1])

\* basis.hpp:131-135
ul(l) == RefChecked(u_basis_, l)

\* basis.hpp:137-141
vl(l) == RefChecked(v_basis_, l)

\* the index and evaluation arguments the callers try
LArgs == -1..dim
XArgs == -(XMax + 1)..(XMax + 1)

Called(op, l, X, r) == [op |-> op, l |-> l, x |-> X, outcome |-> r.outcome, value |-> r.value]

\* A caller invokes one read operation and takes what it gives.
CallSl ==
    /\ pc = "done" /\ ret = NoRet
    /\ \E l \in LArgs : ret' = Called("sl", l, 0, sl(l))
    /\ UNCHANGED <<aside, args, prec, pc, svds, i, locals, fields, result>>

CallUlx ==
    /\ pc = "done" /\ ret = NoRet
    /\ \E l \in LArgs, X \in XArgs : ret' = Called("ulx", l, X, ulx(l, X))
    /\ UNCHANGED <<aside, args, prec, pc, svds, i, locals, fields, result>>

CallVly ==
    /\ pc = "done" /\ ret = NoRet
    /\ \E l \in LArgs, Y \in XArgs : ret' = Called("vly", l, Y, vly(l, Y))
    /\ UNCHANGED <<aside, args, prec, pc, svds, i, locals, fields, result>>

CallUl ==
    /\ pc = "done" /\ ret = NoRet
    /\ \E l \in LArgs : ret' = Called("ul", l, 0, ul(l))
    /\ UNCHANGED <<aside, args, prec, pc, svds, i, locals, fields, result>>

CallVl ==
    /\ pc = "done" /\ ret = NoRet
    /\ \E l \in LArgs : ret' = Called("vl", l, 0, vl(l))
    /\ UNCHANGED <<aside, args, prec, pc, svds, i, locals, fields, result>>

\* The caller has taken the value or caught the error and may call again; an
\* abort ends the process.
Return ==
    /\ pc = "done" /\ ret # NoRet /\ ret.outcome # "abort"
    /\ ret' = NoRet
    /\ UNCHANGED <<aside, args, prec, pc, svds, i, locals, fields, result>>

Next ==
    \/ SetPrecision
    \/ EstimateNodes
    \/ ComputeSVD
    \/ MergeIter
    \/ MergeExit
    \/ CheckOrder
    \/ GenPP
    \/ NormalizeSigns
    \/ Construct
    \/ CallSl
    \/ CallUlx
    \/ CallVly
    \/ CallUl
    \/ CallVl
    \/ Return

Spec == Init /\ [][Next]_vars

\* ------------------------------------------------------------------ properties
\* the arbitrary-precision singular value a picked column belongs to
SourceSV(column) ==
    IF column.sector = "even" THEN sv_even[column.col] ELSE sv_odd[column.col]

\* value / sigma0 >= cutoff, sigma0 the leading singular value of the even sector
RatioAtLeastCutoff(value) == value * CutDen >= cutNum * sv_even[1]

\* position l (1-based) of the interleaving even[0], odd[0], even[1], odd[1], ...
InterleavedSector(l) == IF l % 2 = 1 THEN "even" ELSE "odd"
InterleavedColumn(l) == (l + 1) \div 2

NonIncreasing(s) == \A l \in 1..(Len(s) - 1) : s[l] >= s[l + 1]

\* the value the merge loop would test next
NextTested == IF Len(sv) % 2 = 0 THEN sv_even[i] ELSE sv_odd[i]

Merging == pc \in {"merge", "check"}
Merged == pc \in {"check", "genpp", "sign", "built"}

\* C1: for a max_dim >= 0 the number of retained singular values, vectors and
\* basis functions never exceeds max_dim, while the merge loop runs and in
\* everything built from its output; the three sequences have one length.
C1_DimAtMostMaxDim ==
    /\ (max_dim >= 0 /\ (Merging \/ Merged)) =>
          /\ Len(sv) <= max_dim
          /\ Len(Uvec) <= max_dim /\ Len(Vvec) <= max_dim
          /\ Len(u_basis_pp) <= max_dim /\ Len(v_basis_pp) <= max_dim
    /\ pc = "built" => Len(u_basis_pp) = Len(sv) /\ Len(v_basis_pp) = Len(sv)
    /\ pc = "done" => Len(sv_) = dim /\ Len(v_basis_) = dim

\* C1 happens: the loop stopped with max_dim >= 2 values retained although
\* the value it would have tested next is not below the cutoff.
C1_Witness ==
    /\ pc = "check" /\ ValidConfig
    /\ max_dim >= 2 /\ Len(sv) = max_dim
    /\ i <= Len(sv_even) /\ RatioAtLeastCutoff(NextTested)

\* C2: every retained singular value is the double of an arbitrary-precision
\* singular value of its sector whose ratio to sigma0 is >= cutoff, where
\* sigma0 is the leading singular value of the even sector, and that leading
\* value is the first retained one.
C2_RetainedAboveCutoff ==
    (Merging /\ Len(sv) >= 1) =>
        /\ Uvec[1] = Column("even", 1, "U")
        /\ sv[1] = toDouble(sv_even[1])
        /\ \A l \in 1..Len(sv) :
              /\ RatioAtLeastCutoff(SourceSV(Uvec[l]))
              /\ sv[l] = toDouble(SourceSV(Uvec[l]))

\* C2 happens: an odd-sector value smaller than sigma0 was retained under a
\* positive cutoff, and another value was cut.
C2_Witness ==
    /\ pc = "check" /\ ValidConfig
    /\ Len(sv) >= 2 /\ Len(sv) < max_dim
    /\ sv_odd[1] < sv_even[1]
    /\ i <= Len(sv_even) /\ ~RatioAtLeastCutoff(NextTested)

\* C3 as stated: after truncation the last retained value has ratio >= cutoff
\* and every singular value of either decomposition that was not retained has
\* ratio < cutoff.
C3_AllExcludedBelowCutoff ==
    (pc = "check" /\ ValidConfig) =>
        /\ Len(sv) >= 1 => RatioAtLeastCutoff(SourceSV(Uvec[Len(sv)]))
        /\ \A k \in 1..Len(sv_even) :
              (\A l \in 1..Len(Uvec) : Uvec[l] # Column("even", k, "U"))
                  => ~RatioAtLeastCutoff(sv_even[k])
        /\ \A k \in 1..Len(sv_odd) :
              (\A l \in 1..Len(Uvec) : Uvec[l] # Column("odd", k, "U"))
                  => ~RatioAtLeastCutoff(sv_odd[k])

\* C3, amended: after truncation the last retained value has ratio >= cutoff;
\* when the loop stopped with fewer than max_dim values retained and before
\* the decompositions were exhausted, the value it stopped at and every later
\* value of that value's sector have ratio < cutoff.
C3_StoppedAtCutoff ==
    pc = "check" =>
        /\ Len(sv) >= 1 => RatioAtLeastCutoff(SourceSV(Uvec[Len(sv)]))
        /\ (max_dim >= 1 /\ Len(sv) < max_dim /\ i <= Len(sv_even)) =>
              /\ ~RatioAtLeastCutoff(NextTested)
              /\ \A k \in i..Len(sv_even) :
                    IF Len(sv) % 2 = 0 THEN ~RatioAtLeastCutoff(sv_even[k])
                    ELSE ~RatioAtLeastCutoff(sv_odd[k])

\* C3 happens: the loop stopped on the cutoff test after retaining two values
\* or more.
C3_Witness ==
    /\ pc = "check" /\ ValidConfig
    /\ Len(sv) >= 2 /\ Len(sv) < max_dim /\ i <= Len(sv_even)
    /\ sv[Len(sv)] < sv[1]

\* C4: the merged sequence is validated: a sequence with sv[l] < sv[l+1] for
\* some adjacent pair makes the construction fail with the instability error
\* and leaves no basis; a sequence that passes is carried on unchanged, so
\* every later stage and every constructed basis holds a non-increasing one.
C4_OrderValidated ==
    /\ [](pc \in {"genpp", "sign", "built"} => NonIncreasing(sv))
    /\ [](pc = "done" => NonIncreasing(sv_))
    /\ [](pc = "failed" => sv_ = <<>> /\ u_basis_ = <<>> /\ v_basis_ = <<>>)
    /\ [][pc = "check" =>
            /\ ~NonIncreasing(sv) =>
                  /\ pc' = "failed"
                  /\ result' = "NumericalInstabilityError"
                  /\ fields' = fields
            /\ pc' = "genpp" => sv' = sv /\ Uvec' = Uvec /\ Vvec' = Vvec]_vars

\* C4 happens: under a valid configuration the merged sequence that reaches
\* the validation is not sorted.
C4_Witness ==
    /\ pc = "check" /\ ValidConfig
    /\ ~NonIncreasing(sv)

\* C5: the retained triples are a prefix of the interleaving even[0], odd[0],
\* even[1], odd[1], ...: position l holds the singular value, the left vector
\* and the right vector of one sector and one column; the loop stops at the
\* first failed test and nothing is appended after it.
C5_InterleavedPrefix ==
    /\ [](Merging =>
            /\ Len(Uvec) = Len(sv) /\ Len(Vvec) = Len(sv)
            /\ \A l \in 1..Len(sv) :
                  /\ Uvec[l] = Column(InterleavedSector(l), InterleavedColumn(l), "U")
                  /\ Vvec[l] = Column(InterleavedSector(l), InterleavedColumn(l), "V")
                  /\ sv[l] = toDouble(SourceSV(Uvec[l]))
            /\ pc = "merge" => Len(sv) = 2 * (i - 1)
            /\ pc = "check" => Len(sv) \in {2 * (i - 1), 2 * (i - 1) + 1})
    /\ [][pc # "merge" => (sv' = sv \/ sv' = <<>>) /\ (Uvec' = Uvec \/ Uvec' = <<>>)]_vars

\* C5 happens: the loop stopped at the odd test of its second pass, three
\* triples retained.
C5_Witness ==
    /\ pc = "check" /\ ValidConfig
    /\ Len(sv) = 3 /\ i = 2
    /\ Uvec[2].sector = "odd" /\ Vvec[3] = Column("even", 2, "V")

\* C6: ulx and vly report an index outside [0, dim) as a RangeError and, for
\* an index in range, an argument outside [-1, 1] as a DomainError; a value is
\* given only for an index in range and an argument in the domain.
C6_EvalErrorsReported ==
    (pc = "done" /\ ret.op \in {"ulx", "vly"}) =>
        /\ ~InRange(ret.l) => ret.outcome = "RangeError"
        /\ (InRange(ret.l) /\ ~InDomain(ret.x)) => ret.outcome = "DomainError"
        /\ ret.outcome = "value" => InRange(ret.l) /\ InDomain(ret.x)

\* C7: sl, ul and vl report an index outside [0, dim) as a RangeError and
\* give a value only for an index in range.
C7_IndexErrorsReported ==
    (pc = "done" /\ ret.op \in {"sl", "ul", "vl"}) =>
        /\ ~InRange(ret.l) => ret.outcome = "RangeError"
        /\ ret.outcome = "value" => InRange(ret.l)

\* C8: with max_dim <= 0, cutoff <= 0, cutoff >= 1 or Nl <= 0 the construction
\* does not go past its start: no step of the pipeline runs on such arguments.
C8_InvalidConfigRejected ==
    (pc \in {"start", "nodes", "svd", "merge", "check"} /\ ~ValidConfig) =>
        pc = "start"

\* (-1)^l for a 0-based l
MinusOneToThe(l) == IF l % 2 = 0 THEN 1 ELSE -1

\* ulx(l, -X) = (-1)^l ulx(l, X) and vly(l, -X) = (-1)^l vly(l, X)
ParityAt(l, X) ==
    /\ ulx(l, X).outcome = "value" /\ ulx(l, -X).outcome = "value"
    /\ vly(l, X).outcome = "value" /\ vly(l, -X).outcome = "value"
    /\ ulx(l, -X).value = MinusOneToThe(l) * ulx(l, X).value
    /\ vly(l, -X).value = MinusOneToThe(l) * vly(l, X).value

\* C9 as stated: the parity identity holds for every retained l at every x of
\* [-1, 1], x = 0 and x = +-1 included.
C9_ParityEverywhere ==
    pc = "done" => \A l \in 0..(dim - 1) : \A X \in Grid : ParityAt(l, X)

\* C9, amended: the parity identity holds for every retained l at every
\* x # 0 of [-1, 1], x = +-1 included; at x = 0 ulx and vly give the stored
\* polynomial's value at 0 with no sign applied.
C9_ParityAwayFromZero ==
    pc = "done" =>
        \A l \in 0..(dim - 1) :
            /\ \A X \in Grid \ {0} : ParityAt(l, X)
            /\ ulx(l, 0) = Outcome("value", ComputeValue(u_basis_[l + 1], 0))
            /\ vly(l, 0) = Outcome("value", ComputeValue(v_basis_[l + 1], 0))

\* C9 happens: a caller evaluated an odd-l basis function at x = -1 and got
\* the negative of its value at x = 1.
C9_Witness ==
    /\ pc = "done" /\ ret.op = "ulx"
    /\ ret.l = 1 /\ ret.x = -XMax
    /\ ret.outcome = "value" /\ ret.value < 0
    /\ ret.value = -ulx(1, XMax).value

\* C10: after sign normalisation every u_l has u_l(1) >= 0; of each pair
\* (u_l, v_l) either both are what gen_pp made or both are its negation; the
\* singular values are not touched by the step.
C10_SignNormalised ==
    /\ [](pc = "built" =>
            \A k \in 1..Len(u_basis_pp) :
                LET gu == gen_pp(Filled(Uvec, cols))[k]
                    gv == gen_pp(Filled(Vvec, cols))[k]
                IN  /\ ComputeValue(u_basis_pp[k], XMax) >= 0
                    /\ \/ u_basis_pp[k] = gu /\ v_basis_pp[k] = gv
                       \/ u_basis_pp[k] = Scale(-1, gu) /\ v_basis_pp[k] = Scale(-1, gv))
    /\ [](pc = "done" => \A l \in 0..(dim - 1) : ulx(l, XMax).value >= 0)
    /\ [][pc = "sign" => sv' = sv]_vars

\* C10 happens: the step negated one pair and left another as it was.
C10_Witness ==
    /\ pc = "built"
    /\ \E k, m \in 1..Len(u_basis_pp) :
          /\ u_basis_pp[k] = Scale(-1, gen_pp(Filled(Uvec, cols))[k])
          /\ v_basis_pp[k] = Scale(-1, gen_pp(Filled(Vvec, cols))[k])
          /\ u_basis_pp[m] = gen_pp(Filled(Uvec, cols))[m]

\* ================================================================ other parts
\* The construction and the read operations of one basis are not followed
MainIdle ==
    /\ ndebug = TRUE /\ max_dim = 0 /\ cutNum = 0 /\ Nl = 0
    /\ prec = StartPrec /\ pc = "idle" /\ num_sec = 0
    /\ sv_even = <<>> /\ sv_odd = <<>> /\ i = 0
    /\ sv = <<>> /\ Uvec = <<>> /\ Vvec = <<>> /\ cols = <<>>
    /\ u_basis_pp = <<>> /\ v_basis_pp = <<>>
    /\ sv_ = <<>> /\ u_basis_ = <<>> /\ v_basis_ = <<>>
    /\ result = "none" /\ ret = NoRet

\* --------------------------------------------------------------- section edges
\* The doubles of [0,1] are the even numbers 0, 2, ..., One
HalfOne == 3
One == 2 * HalfOne
\* the most nodes the estimator returns for an axis
MaxNodes == 2

\* the doubles strictly inside (0,1)
Interior == {2 * k : k \in 1..(HalfOne - 1)}

StrictlyIncreasing(s) == \A k \in 1..(Len(s) - 1) : s[k] < s[k + 1]

\* compute_approximate_nodes_even_sector (detail/aux.hpp): the places inside
\* (0,1) where the last even basis function changes sign, in increasing
\* order when the estimate converged; the best estimate found, which can
\* hold stale values, when it did not.
EstimatorOutputs(conv) ==
    {s \in UNION {[1..k -> Interior] : k \in 0..MaxNodes} :
        conv => StrictlyIncreasing(s)}

\* mpreal(double): every double is an arbitrary-precision value
mpOfDouble(d) == d

\* kernel.hpp:372-380  gen_section_edges
gen_section_edges(nds) ==
    <<0>> \o [k \in 1..Len(nds) |-> mpOfDouble(nds[k])] \o <<One>>

\* kernel.hpp:292-296  section_edges_pp before it is sorted
MirroredPushes(edges) ==
    <<0>> \o [k \in 1..(2 * (Len(edges) - 1)) |->
                IF k % 2 = 1 THEN toDouble(edges[(k + 1) \div 2 + 1])
                ELSE -toDouble(edges[k \div 2 + 1])]

\* kernel.hpp:297  std::sort
Sorted(s) == SortSeq(s, LAMBDA a, b : a < b)

InitEdges ==
    /\ MainIdle /\ PrecIdle /\ ReadsIdle /\ KernelIdle /\ GenIdle /\ MatrixIdle
    /\ epc = "start" /\ converged = FALSE
    /\ nodes = [a \in Axes |-> <<>>]
    /\ section_edges = [a \in Axes |-> <<>>]
    /\ section_edges_pp = [a \in Axes |-> <<>>]

\* kernel.hpp:370
EstimatorReturns ==
    /\ epc = "start"
    /\ \E c \in BOOLEAN :
          /\ converged' = c
          /\ nodes' \in [Axes -> EstimatorOutputs(c)]
    /\ epc' = "nodes"
    /\ UNCHANGED <<mainVars, besideEdges, section_edges, section_edges_pp>>

\* kernel.hpp:381-382
GenSectionEdges ==
    /\ epc = "nodes"
    /\ section_edges' = [a \in Axes |-> gen_section_edges(nodes[a])]
    /\ epc' = "edges"
    /\ UNCHANGED <<mainVars, besideEdges, converged, nodes, section_edges_pp>>

\* kernel.hpp:292-302, in gen_pp(section_edges_x, Uvec) and
\* gen_pp(section_edges_y, Vvec).  The assertion of line 302 compares
\* section_edges_pp.size()-1 with twice section_edges.size()-1, which the
\* pushes make equal whatever the edges are.
MirrorEdges ==
    /\ epc = "edges"
    /\ section_edges_pp' = [a \in Axes |-> Sorted(MirroredPushes(section_edges[a]))]
    /\ epc' = "mirrored"
    /\ UNCHANGED <<mainVars, besideEdges, converged, nodes, section_edges>>

NextEdges == EstimatorReturns \/ GenSectionEdges \/ MirrorEdges

SpecEdges == InitEdges /\ [][NextEdges]_vars

\* C11: for any output of the node estimator, converged or not, the
\* half-domain section edges of x and of y are strictly increasing from 0 to
\* 1, and the mirrored edges are strictly increasing from -1 to 1 with twice
\* as many sections.
C11_EdgesStrictlyIncreasing ==
    /\ epc \in {"edges", "mirrored"} =>
          \A a \in Axes :
              /\ StrictlyIncreasing(section_edges[a])
              /\ section_edges[a][1] = 0
              /\ section_edges[a][Len(section_edges[a])] = One
    /\ epc = "mirrored" =>
          \A a \in Axes :
              /\ StrictlyIncreasing(section_edges_pp[a])
              /\ section_edges_pp[a][1] = -One
              /\ section_edges_pp[a][Len(section_edges_pp[a])] = One
              /\ Len(section_edges_pp[a]) - 1 = 2 * (Len(section_edges[a]) - 1)

\* --------------------------------------------------------------- working width
\* The cutoffs tried are 10^-e for e in CutExps
CutExps == {12, 20, 30}

\* kernel.hpp:362  std::max(static_cast<int>(3.33333*(std::log10(1/sv_cutoff) + 15)), 100)
\* for sv_cutoff = 10^-e
MinPrecOf(e) ==
    LET scaled == (333333 * (e + 15)) \div 100000
    IN  IF scaled > MinPrecFloor THEN scaled ELSE MinPrecFloor

mainButPrec == <<ndebug, max_dim, cutNum, Nl, pc, num_sec, sv_even, sv_odd, i,
                 sv, Uvec, Vvec, cols, u_basis_pp, v_basis_pp, sv_, u_basis_, v_basis_,
                 result, ret>>

InitPrec ==
    /\ MainIdle /\ EdgesIdle /\ ReadsIdle /\ KernelIdle /\ GenIdle /\ MatrixIdle
    /\ thr = [t \in Threads |-> IdleThread]

\* kernel.hpp:350-362  a thread enters generate_ir_basis_functions
BeginConstruction(t) ==
    /\ thr[t].pc \in {"idle", "done"}
    /\ \E e \in CutExps :
          thr' = [thr EXCEPT ![t] = [pc |-> "read", cutExp |-> e, min_prec |-> MinPrecOf(e),
                                     seen |-> 0, width0 |-> 0]]
    /\ UNCHANGED <<mainVars, besidePrec>>

\* kernel.hpp:363  mpreal::get_default_prec()
ReadDefaultPrec(t) ==
    /\ thr[t].pc = "read"
    /\ thr' = [thr EXCEPT ![t].seen = prec, ![t].pc = "set"]
    /\ UNCHANGED <<mainVars, besidePrec>>

\* kernel.hpp:363-365  the comparison and mpreal::set_default_prec(min_prec)
SetDefaultPrec(t) ==
    /\ thr[t].pc = "set"
    /\ prec' = IF thr[t].min_prec > thr[t].seen THEN thr[t].min_prec ELSE prec
    /\ thr' = [thr EXCEPT ![t].pc = "ready"]
    /\ UNCHANGED <<mainButPrec, besidePrec>>

\* kernel.hpp:370  the first kernel evaluation of the construction, made at
\* the width of that moment
FirstEvaluation(t) ==
    /\ thr[t].pc = "ready"
    /\ thr' = [thr EXCEPT ![t].width0 = prec, ![t].pc = "computing"]
    /\ UNCHANGED <<mainVars, besidePrec>>

\* kernel.hpp:385-389  the construction completes
Complete(t) ==
    /\ thr[t].pc = "computing"
    /\ thr' = [thr EXCEPT ![t].pc = "done"]
    /\ UNCHANGED <<mainVars, besidePrec>>

NextPrec ==
    \E t \in Threads :
        \/ BeginConstruction(t)
        \/ ReadDefaultPrec(t)
        \/ SetDefaultPrec(t)
        \/ FirstEvaluation(t)
        \/ Complete(t)

SpecPrec == InitPrec /\ [][NextPrec]_vars

\* C12: while a construction is in flight (from its first kernel evaluation
\* to its completion) the process-wide width is the one of its first kernel
\* evaluation and is at least max(100, 3.33333*(log10(1/cutoff)+15)) bits,
\* whatever that construction or a construction running at the same time
\* does.
C12_WidthStableInFlight ==
    \A t \in Threads :
        thr[t].pc = "computing" =>
            /\ prec = thr[t].width0
            /\ prec >= MinPrecOf(thr[t].cutExp)

\* ------------------------------------------- read operations from several threads
\* the largest dim() of the bases read
ReadDim == 2

\* the doubles a retained singular value can be
SVDoubles == {toDouble(x) : x \in 1..MaxSV}

\* Uvec or Vvec after the merge loop retained d triples
RetainedColumns(d, mat) ==
    [l \in 1..d |-> Column(InterleavedSector(l), InterleavedColumn(l), mat)]

\* u_basis_ or v_basis_ of a constructed basis of d functions: what gen_pp and
\* the sign normalisation make of the retained vectors (r is the value at 0
\* the odd-sector expansions leave)
BuiltFunctions(d, r, mat) ==
    gen_pp(Filled(RetainedColumns(d, mat),
                  [l \in 1..d |-> [sgn |-> 1,
                                   res |-> IF InterleavedSector(l) = "odd" THEN r ELSE 1]]))

\* kernel.hpp:67-69, 111-113  the statistics tag of the kernel
Statistics == {"FERMIONIC", "BOSONIC"}

\* the arguments the readers try
ReadXArgs == {-XMax, 0, XMax + 1}
NVecs == {<<0>>, <<0, 1>>}

\* compute_transformation_matrix_to_matsubara (not in basis.hpp): a function
\* of its arguments
ComputeTransformationMatrixToMatsubara(n_vec, stat, u) == <<"Tnl", n_vec, stat, u>>

\* irlib::compute_Tbar_ol (not in basis.hpp): a function of its arguments,
\* written to a tensor of o_vec.size() by u_basis_.size()
ComputeTbarOl(o_vec, u) == <<"Tbar_ol", Len(o_vec), Len(u), o_vec, u>>

Call(op, l, X, n) == [op |-> op, l |-> l, x |-> X, n |-> n,
                      expected |-> [outcome |-> "none", value |-> 0]]

\* what a read operation gives on the basis as it is now
ResultOf(c) ==
    CASE c.op = "dim" -> Outcome("value", dim)
      [] c.op = "get_statistics" -> Outcome("value", statistics_)
      [] c.op = "sl" -> sl(c.l)
      [] c.op = "ulx" -> ulx(c.l, c.x)
      [] c.op = "vly" -> vly(c.l, c.x)
      [] c.op = "ul" -> ul(c.l)
      [] c.op = "vl" -> vl(c.l)
      [] c.op = "compute_Tnl" ->
            Outcome("value", ComputeTransformationMatrixToMatsubara(c.n, statistics_, u_basis_))
      [] c.op = "compute_Tbar_ol" -> Outcome("value", ComputeTbarOl(c.n, u_basis_))

ThisBasis == [stat |-> statistics_, sv |-> sv_, u |-> u_basis_, v |-> v_basis_]

\* variant of Effect: ulx at a negative argument reflects the stored function
\* in place instead of the value it returns
EffectReflectInPlace(c, b) ==
    IF c.op = "ulx" /\ c.x < 0 /\ c.l >= 0 /\ c.l < Len(b.u)
    THEN [b EXCEPT !.u[c.l + 1] = Scale(-1, b.u[c.l + 1])]
    ELSE b

\* basis.hpp:52-206  every read operation is a const member function and no
\* member is mutable: the basis after the call is the basis b before it
Effect(c, b) == b

mainButFields == <<ndebug, max_dim, cutNum, Nl, prec, pc, num_sec, sv_even, sv_odd, i,
                   sv, Uvec, Vvec, cols, u_basis_pp, v_basis_pp, result, ret>>

\* basis.hpp:33-38 has returned: a constructed basis
InitReads ==
    /\ EdgesIdle /\ PrecIdle /\ KernelIdle /\ GenIdle /\ MatrixIdle
    /\ ndebug \in BOOLEAN
    /\ max_dim = 0 /\ cutNum = 0 /\ Nl = 0
    /\ prec = MinPrecFloor /\ pc = "done" /\ num_sec = 0
    /\ sv_even = <<>> /\ sv_odd = <<>> /\ i = 0
    /\ sv = <<>> /\ Uvec = <<>> /\ Vvec = <<>> /\ cols = <<>>
    /\ u_basis_pp = <<>> /\ v_basis_pp = <<>>
    /\ result = "ok" /\ ret = NoRet
    /\ \E d \in 1..ReadDim, r \in {0, 1} :
          /\ sv_ \in {sq \in [1..d -> SVDoubles] : NonIncreasing(sq)}
          /\ u_basis_ = BuiltFunctions(d, r, "U")
          /\ v_basis_ = BuiltFunctions(d, r, "V")
    /\ statistics_ \in Statistics
    /\ calls = [t \in Readers |-> NoCall]

\* an assertion that failed has ended the process
Alive == \A t \in Readers : calls[t].expected.outcome # "abort"

\* reader t is not inside a read operation
CanCall(t) == Alive /\ calls[t].op = "none"

\* reader t enters the read operation of c
Begin(t, c) ==
    /\ calls' = [calls EXCEPT ![t] = [c EXCEPT !.expected = ResultOf(c)]]
    /\ UNCHANGED <<mainVars, besideReads, statistics_>>

\* basis.hpp:153
DoDim(t) == CanCall(t) /\ Begin(t, Call("dim", 0, 0, <<>>))

\* basis.hpp:156-158
DoGetStatistics(t) == CanCall(t) /\ Begin(t, Call("get_statistics", 0, 0, <<>>))

\* basis.hpp:52-56
DoSl(t) == CanCall(t) /\ \E l \in LArgs : Begin(t, Call("sl", l, 0, <<>>))

\* basis.hpp:63-65, 83-100
DoUlx(t) == CanCall(t) /\ \E l \in LArgs, X \in ReadXArgs : Begin(t, Call("ulx", l, X, <<>>))

\* basis.hpp:72-74, 108-124
DoVly(t) == CanCall(t) /\ \E l \in LArgs, Y \in ReadXArgs : Begin(t, Call("vly", l, Y, <<>>))

\* basis.hpp:131-135
DoUl(t) == CanCall(t) /\ \E l \in LArgs : Begin(t, Call("ul", l, 0, <<>>))

\* basis.hpp:137-141
DoVl(t) == CanCall(t) /\ \E l \in LArgs : Begin(t, Call("vl", l, 0, <<>>))

\* basis.hpp:167-189
DoComputeTnl(t) == CanCall(t) /\ \E n \in NVecs : Begin(t, Call("compute_Tnl", 0, 0, n))

\* basis.hpp:197-206
DoComputeTbarOl(t) == CanCall(t) /\ \E n \in NVecs : Begin(t, Call("compute_Tbar_ol", 0, 0, n))

\* the read operation of reader t returns or throws; what it leaves of the basis
Finish(t) ==
    /\ Alive
    /\ calls[t].op # "none"
    /\ LET b == Effect(calls[t], ThisBasis)
       IN  /\ statistics_' = b.stat
           /\ sv_' = b.sv
           /\ u_basis_' = b.u
           /\ v_basis_' = b.v
    /\ calls' = [calls EXCEPT ![t] = NoCall]
    /\ UNCHANGED <<mainButFields, besideReads>>

NextReads ==
    \E t \in Readers :
        \/ DoDim(t)
        \/ DoGetStatistics(t)
        \/ DoSl(t)
        \/ DoUlx(t)
        \/ DoVly(t)
        \/ DoUl(t)
        \/ DoVl(t)
        \/ DoComputeTnl(t)
        \/ DoComputeTbarOl(t)
        \/ Finish(t)

SpecReads == InitReads /\ [][NextReads]_vars

YOne == 2
TinyExp == 31

\* kernel.hpp:57, 97  const double limit = 200.0
Limit == 200

\* kernel.hpp:100  the 1e-30 of the test on |Lambda_ * y|
ThresholdExp == 30

\* the cutoff scales Lambda tried
Lambdas == {1, Limit, 2 * Limit}

XGrid == {-YOne, 0, YOne}
YGrid == {[m |-> m, e |-> e] : m \in -YOne..YOne, e \in {0, TinyExp}}

\* a * 10^k < b, for a >= 0
RECURSIVE TimesTenLess(_, _, _)
TimesTenLess(a, k, b) ==
    IF k = 0 THEN a < b
    ELSE IF a >= b THEN FALSE
    ELSE TimesTenLess(10 * a, k - 1, b)

\* a < b * 10^k, for b >= 0
RECURSIVE LessTimesTen(_, _, _)
LessTimesTen(a, b, k) ==
    IF k = 0 THEN a < b
    ELSE IF a < b THEN TRUE
    ELSE LessTimesTen(a, 10 * b, k - 1)

Abs(n) == IF n < 0 THEN -n ELSE n

\* Lambda_ * y
LambdaTimes(Lambda, y) == [m |-> Lambda * y.m, e |-> y.e]

\* p > n, p < -n and |p| < 10^-k for a product p and naturals n, k
Above(p, n) == TimesTenLess(n * YOne, p.e, p.m)
Below(p, n) == TimesTenLess(n * YOne, p.e, -p.m)
AbsBelowTenTo(p, k) ==
    IF p.e >= k THEN LessTimesTen(Abs(p.m), YOne, p.e - k)
    ELSE TimesTenLess(Abs(p.m), k - p.e, YOne)

\* kernel.hpp:54-65  fermionic_kernel::operator(): the closed form returned
fermionic_kernel(Lambda, x, y) ==
    IF Above(LambdaTimes(Lambda, y), Limit) THEN "asymptotic_positive"
    ELSE IF Below(LambdaTimes(Lambda, y), Limit) THEN "asymptotic_negative"
    ELSE "cosh"

\* variant of bosonic_kernel without the test on |Lambda_ * y|
bosonic_kernel_untested(Lambda, x, y) ==
    IF Above(LambdaTimes(Lambda, y), Limit) THEN "asymptotic_positive"
    ELSE IF Below(LambdaTimes(Lambda, y), Limit) THEN "asymptotic_negative"
    ELSE "sinh"

\* kernel.hpp:96-109  bosonic_kernel::operator(): the closed form returned
bosonic_kernel(Lambda, x, y) ==
    IF AbsBelowTenTo(LambdaTimes(Lambda, y), ThresholdExp) THEN "limit"
    ELSE IF Above(LambdaTimes(Lambda, y), Limit) THEN "asymptotic_positive"
    ELSE IF Below(LambdaTimes(Lambda, y), Limit) THEN "asymptotic_negative"
    ELSE "sinh"

\* the virtual call kernel::operator()
KernelCall(K, x, y) ==
    IF K.statistics = "FERMIONIC" THEN fermionic_kernel(K.Lambda, x, y)
    ELSE bosonic_kernel(K.Lambda, x, y)

\* kernel.hpp:77-79, 121-123  clone()
clone(K) ==
    IF K.statistics = "FERMIONIC"
    THEN [statistics |-> "FERMIONIC", Lambda |-> K.Lambda]
    ELSE [statistics |-> "BOSONIC", Lambda |-> K.Lambda]

\* kernel.hpp:50, 92  a kernel has been constructed
InitKernel ==
    /\ MainIdle /\ EdgesIdle /\ PrecIdle /\ ReadsIdle /\ GenIdle /\ MatrixIdle
    /\ kern \in [statistics : Statistics, Lambda : Lambdas]
    /\ cloned = NoKernel
    /\ evaluated = NoValue

\* kernel.hpp:54-65, 96-109  operator() const on the kernel
Evaluate ==
    /\ \E x \in XGrid, y \in YGrid :
          evaluated' = [of |-> "kernel", kernel |-> kern, x |-> x, y |-> y,
                    form |-> KernelCall(kern, x, y)]
    /\ UNCHANGED <<mainVars, besideKern, kern, cloned>>

\* kernel.hpp:77-79, 121-123
Clone ==
    /\ cloned' = clone(kern)
    /\ UNCHANGED <<mainVars, besideKern, kern, evaluated>>

\* operator() const on the kernel clone() returned
EvaluateClone ==
    /\ cloned # NoKernel
    /\ \E x \in XGrid, y \in YGrid :
          evaluated' = [of |-> "clone", kernel |-> cloned, x |-> x, y |-> y,
                    form |-> KernelCall(cloned, x, y)]
    /\ UNCHANGED <<mainVars, besideKern, kern, cloned>>

NextKernel ==
    \/ Evaluate
    \/ Clone
    \/ EvaluateClone

SpecKernel == InitKernel /\ [][NextKernel]_vars

\* Lambda * y of the last evaluation
LambdaY == LambdaTimes(evaluated.kernel.Lambda, evaluated.y)

\* C15: the closed form is chosen from Lambda*y alone: for the fermionic
\* kernel the positive asymptote exactly when Lambda*y > 200, the negative one
\* exactly when Lambda*y < -200, the cosh form otherwise (so at +-200 too);
\* the bosonic kernel gives the y -> 0 limit exactly when |Lambda*y| < 1e-30,
\* never the sinh form at y = 0, and otherwise splits the same way; no
\* evaluation changes the kernel, and a clone has its Lambda and statistics.
C15_OneClosedForm ==
    /\ [](evaluated.of # "none" =>
            /\ evaluated.kernel.statistics = "FERMIONIC" =>
                  /\ evaluated.form = "asymptotic_positive" <=> Above(LambdaY, Limit)
                  /\ evaluated.form = "asymptotic_negative" <=> Below(LambdaY, Limit)
                  /\ evaluated.form = "cosh" <=> ~Above(LambdaY, Limit) /\ ~Below(LambdaY, Limit)
            /\ evaluated.kernel.statistics = "BOSONIC" =>
                  /\ evaluated.form = "limit" <=> AbsBelowTenTo(LambdaY, ThresholdExp)
                  /\ evaluated.y.m = 0 => evaluated.form = "limit"
                  /\ ~AbsBelowTenTo(LambdaY, ThresholdExp) =>
                        /\ evaluated.form = "asymptotic_positive" <=> Above(LambdaY, Limit)
                        /\ evaluated.form = "asymptotic_negative" <=> Below(LambdaY, Limit)
                        /\ evaluated.form = "sinh" <=> ~Above(LambdaY, Limit) /\ ~Below(LambdaY, Limit)
            /\ \A x \in XGrid :
                  KernelCall(evaluated.kernel, x, evaluated.y) = evaluated.form)
    /\ [][kern' = kern]_vars
    /\ [](cloned # NoKernel =>
            cloned.Lambda = kern.Lambda /\ cloned.statistics = kern.statistics)

\* C15 happens: the clone of a bosonic kernel was evaluated at y = 0, and at
\* Lambda*y = 200 exactly.
C15_Witness ==
    /\ evaluated.of = "clone" /\ evaluated.kernel.statistics = "BOSONIC"
    /\ \/ evaluated.y.m = 0 /\ evaluated.form = "limit"
       \/ evaluated.y.e = 0 /\ LambdaY.m = Limit * YOne /\ evaluated.form = "sinh"

\* ------------------------------------------------- gen_pp: where the series go
\* the most vectors gen_pp is given
MaxVectors == 2

\* kernel.hpp:314-316  tmp for section s, Legendre degree l and order d is
\* kept as the term it is, with the sign it is added with
Term(s, l, sign) == [s |-> s, l |-> l, sign |-> sign]

\* kernel.hpp:317  s + ns_pp / 2
PlainTarget(s, ns_pp) == s + ns_pp \div 2

\* variant of FlippedTarget: one section too far to the right
FlippedTargetOffByOne(s, ns_pp) == -s + ns_pp \div 2

\* kernel.hpp:318  -s + ns_pp / 2 - 1
FlippedTarget(s, ns_pp) == -s + ns_pp \div 2 - 1

\* kernel.hpp:309, 318  parity * (l % 2 == 0 ? 1 : -1)
FlipSign(v, l) == (IF v % 2 = 0 THEN 1 ELSE -1) * (IF l % 2 = 0 THEN 1 ELSE -1)

\* kernel.hpp:317  coeff[target][d] += sign * tmp, for every d
AddTo(coeff, target, s, l, sign) ==
    [k \in DOMAIN coeff |->
        IF k = target
        THEN [d \in DOMAIN coeff[k] |-> Append(coeff[k][d], Term(s, l, sign))]
        ELSE coeff[k]]

\* kernel.hpp:290  gen_pp is called with section edges and vectors
InitGenPP ==
    /\ MainIdle /\ EdgesIdle /\ PrecIdle /\ ReadsIdle /\ KernelIdle /\ MatrixIdle
    /\ \E nds \in EstimatorOutputs(TRUE) \cup EstimatorOutputs(FALSE),
          nl \in 1..MaxNl, nv \in 1..MaxVectors :
          gen = [NoGen EXCEPT !.pc = "edges",
                              !.section_edges = gen_section_edges(nds),
                              !.Nl = nl,
                              !.vectors_size = nv]

\* kernel.hpp:292-301
MakeEdgesPP ==
    /\ gen.pc = "edges"
    /\ LET edges_pp == Sorted(MirroredPushes(gen.section_edges))
       IN  gen' = [gen EXCEPT !.section_edges_pp = edges_pp,
                              !.ns_pp = Len(edges_pp) - 1,
                              !.v = 0,
                              !.pc = "vector"]
    /\ UNCHANGED <<mainVars, besideGen>>

\* kernel.hpp:302-309  the next vector: coeff is made and filled with 0.0
BeginVector ==
    /\ gen.pc = "vector"
    /\ gen.v < gen.vectors_size
    /\ gen' = [gen EXCEPT !.coeff = [k \in 0..(gen.ns_pp - 1) |->
                                        [d \in 0..(gen.Nl - 1) |-> <<>>]],
                          !.s = 0,
                          !.l = 0,
                          !.pc = "terms"]
    /\ UNCHANGED <<mainVars, besideGen>>

\* kernel.hpp:311-321  one pass of the loop over l, for section s
AddTerms ==
    /\ gen.pc = "terms"
    /\ gen.s < Len(gen.section_edges) - 1
    /\ LET plain == AddTo(gen.coeff, PlainTarget(gen.s, gen.ns_pp), gen.s, gen.l, 1)
           both == AddTo(plain, FlippedTarget(gen.s, gen.ns_pp), gen.s, gen.l,
                         FlipSign(gen.v, gen.l))
       IN  gen' = [gen EXCEPT !.coeff = both,
                              !.l = IF gen.l + 1 < gen.Nl THEN gen.l + 1 ELSE 0,
                              !.s = IF gen.l + 1 < gen.Nl THEN gen.s ELSE gen.s + 1]
    /\ UNCHANGED <<mainVars, besideGen>>

\* kernel.hpp:323  pp.push_back(piecewise_polynomial(...))
PushPolynomial ==
    /\ gen.pc = "terms"
    /\ gen.s = Len(gen.section_edges) - 1
    /\ gen' = [gen EXCEPT !.pp = Append(@, [section_edges |-> gen.section_edges_pp,
                                            coeff |-> gen.coeff]),
                          !.v = @ + 1,
                          !.pc = "vector"]
    /\ UNCHANGED <<mainVars, besideGen>>

\* kernel.hpp:326  return pp
ReturnPP ==
    /\ gen.pc = "vector"
    /\ gen.v = gen.vectors_size
    /\ gen' = [gen EXCEPT !.pc = "done"]
    /\ UNCHANGED <<mainVars, besideGen>>

NextGenPP ==
    \/ MakeEdgesPP
    \/ BeginVector
    \/ AddTerms
    \/ PushPolynomial
    \/ ReturnPP

SpecGenPP == InitGenPP /\ [][NextGenPP]_vars

\* number of half-domain sections
HalfSections == Len(gen.section_edges) - 1

\* the half-domain section whose series full-domain section k must hold
SourceSection(k) == IF k >= HalfSections THEN k - HalfSections ELSE HalfSections - 1 - k

\* what coefficient d of full-domain section k of basis function v must be
ExpectedCoeff(v, k) ==
    [l1 \in 1..gen.Nl |->
        Term(SourceSection(k), l1 - 1,
             IF k >= HalfSections THEN 1
             ELSE MinusOneToThe(v) * MinusOneToThe(l1 - 1))]

\* C16: with n half-domain sections there are 2n full-domain sections; every
\* coefficient starts at 0; each polynomial built holds in section n+s the
\* series of half section s and in section n-1-s its copy with sign
\* (-1)^(basis index) * (-1)^(Legendre degree), and nothing else, so each
\* full-domain section is the target of exactly one half section; and section
\* n-1-s of the sorted edges is the mirror image of section n+s.
C16_SeriesPlacement ==
    /\ gen.pc \in {"vector", "terms", "done"} => gen.ns_pp = 2 * HalfSections
    /\ (gen.pc = "terms" /\ gen.s = 0 /\ gen.l = 0) =>
          \A k \in DOMAIN gen.coeff : \A d \in DOMAIN gen.coeff[k] : gen.coeff[k][d] = <<>>
    /\ \A v1 \in 1..Len(gen.pp) :
          /\ DOMAIN gen.pp[v1].coeff = 0..(2 * HalfSections - 1)
          /\ \A k \in DOMAIN gen.pp[v1].coeff :
                /\ DOMAIN gen.pp[v1].coeff[k] = 0..(gen.Nl - 1)
                /\ \A d \in DOMAIN gen.pp[v1].coeff[k] :
                      gen.pp[v1].coeff[k][d] = ExpectedCoeff(v1 - 1, k)
    /\ gen.pc \in {"vector", "terms", "done"} =>
          \A s \in 0..(HalfSections - 1) :
             /\ gen.section_edges_pp[HalfSections - 1 - s + 1]
                   = -gen.section_edges_pp[HalfSections + s + 2]
             /\ gen.section_edges_pp[HalfSections - 1 - s + 2]
                   = -gen.section_edges_pp[HalfSections + s + 1]
             /\ StrictlyIncreasing(gen.section_edges) =>
                   /\ gen.section_edges_pp[HalfSections + s + 1] = toDouble(gen.section_edges[s + 1])
                   /\ gen.section_edges_pp[HalfSections + s + 2] = toDouble(gen.section_edges[s + 2])

\* C16 happens: gen_pp returned two polynomials of three half-domain sections
\* and two Legendre degrees each.
C16_Witness ==
    /\ gen.pc = "done"
    /\ Len(gen.pp) = 2 /\ HalfSections = 3 /\ gen.Nl = 2
    /\ StrictlyIncreasing(gen.section_edges)

\* ------------------------------------------------- matrix_rep: sizes and places
\* the longest edge list and the most Gauss-Legendre nodes per section
MaxEdges == 4
MaxLocalNodes == 2

\* gauss_legendre_nodes(num_local_nodes) (detail/aux.hpp): that many nodes
GaussLegendreNodesSize(num_local_nodes) == num_local_nodes

\* kernel.hpp:138-141  the size of what composite_gauss_legendre_nodes returns
CompositeSize(edges_size, nodes_size) == (edges_size - 1) * nodes_size

\* an index into a vector of that size is inside it
InBounds(k, size) == k >= 0 /\ k < size

\* variant of RowOf: the sections are not spaced by Nl
RowOfUnspaced(Nl_, s, l) == s + l

\* kernel.hpp:218  the row Nl * s + l, and likewise the column Nl * s2 + l2
RowOf(Nl_, s, l) == Nl_ * s + l

\* kernel.hpp:190-197  the reads of the pass s of the first loop
PhiReadsInBounds(m) ==
    /\ InBounds(m.s + 1, m.len_x) /\ InBounds(m.s, m.len_x)
    /\ InBounds(m.s + 1, m.len_y) /\ InBounds(m.s, m.len_y)
    /\ \A n \in 0..(m.num_local_nodes - 1) :
          /\ InBounds(n, GaussLegendreNodesSize(m.num_local_nodes))
          /\ InBounds(m.s * m.num_local_nodes + n, m.nodes_x_size)
          /\ InBounds(m.s * m.num_local_nodes + n, m.nodes_y_size)

\* kernel.hpp:205-210  the reads of the block (s, s2)
BlockReadsInBounds(m) ==
    /\ InBounds(m.s, m.num_sec) /\ InBounds(m.s2, m.num_sec)
    /\ \A n \in 0..(m.num_local_nodes - 1) :
          /\ InBounds(m.s * m.num_local_nodes + n, m.nodes_x_size)
          /\ InBounds(m.s2 * m.num_local_nodes + n, m.nodes_y_size)

\* kernel.hpp:216-220  K_mat(Nl * s + l, Nl * s2 + l2) = r(l, l2), for all l, l2
WriteBlock(K, Nl_, s, s2) ==
    [p \in DOMAIN K |->
        IF \E l \in 0..(Nl_ - 1), l2 \in 0..(Nl_ - 1) :
              p = <<RowOf(Nl_, s, l), RowOf(Nl_, s2, l2)>>
        THEN K[p] \o [j \in 1..Cardinality({q \in (0..(Nl_ - 1)) \X (0..(Nl_ - 1)) :
                                               p = <<RowOf(Nl_, s, q[1]), RowOf(Nl_, s2, q[2])>>}) |->
                         LET q == CHOOSE q \in (0..(Nl_ - 1)) \X (0..(Nl_ - 1)) :
                                     p = <<RowOf(Nl_, s, q[1]), RowOf(Nl_, s2, q[2])>>
                         IN  [s |-> s, s2 |-> s2, l |-> q[1], l2 |-> q[2]]]
        ELSE K[p]]

\* kernel.hpp:170-174  matrix_rep is called
InitMatrix ==
    /\ MainIdle /\ EdgesIdle /\ PrecIdle /\ ReadsIdle /\ KernelIdle /\ GenIdle
    /\ \E lx \in 2..MaxEdges, ly \in 2..MaxEdges, nl \in 1..MaxNl, nn \in 1..MaxLocalNodes :
          mrep = [NoMatrix EXCEPT !.pc = "start", !.len_x = lx, !.len_y = ly,
                                 !.Nl = nl, !.num_local_nodes = nn]

\* kernel.hpp:178-186
MakeNodes ==
    /\ mrep.pc = "start"
    /\ mrep' = [mrep EXCEPT !.num_sec = mrep.len_x - 1,
                          !.nodes_x_size = CompositeSize(mrep.len_x,
                                              GaussLegendreNodesSize(mrep.num_local_nodes)),
                          !.nodes_y_size = CompositeSize(mrep.len_y,
                                              GaussLegendreNodesSize(mrep.num_local_nodes)),
                          !.s = 0,
                          !.pc = "phi"]
    /\ UNCHANGED <<mainVars, besideMat>>

\* kernel.hpp:187-199  one pass of the loop over s; a read outside a vector
\* is undefined behaviour
FillPhi ==
    /\ mrep.pc = "phi"
    /\ mrep.s < mrep.num_sec
    /\ mrep' = IF PhiReadsInBounds(mrep)
              THEN [mrep EXCEPT !.s = @ + 1]
              ELSE [mrep EXCEPT !.pc = "undefined"]
    /\ UNCHANGED <<mainVars, besideMat>>

\* kernel.hpp:201  matrix_type K_mat(num_sec * Nl, num_sec * Nl)
AllocK ==
    /\ mrep.pc = "phi"
    /\ mrep.s = mrep.num_sec
    /\ mrep' = [mrep EXCEPT !.K_mat = [p \in (0..(mrep.num_sec * mrep.Nl - 1))
                                          \X (0..(mrep.num_sec * mrep.Nl - 1)) |-> <<>>],
                          !.s2 = 0,
                          !.s = 0,
                          !.pc = "blocks"]
    /\ UNCHANGED <<mainVars, besideMat>>

\* kernel.hpp:202-222  the block of the section pair (s, s2)
FillBlock ==
    /\ mrep.pc = "blocks"
    /\ mrep.s2 < mrep.num_sec
    /\ mrep' = IF BlockReadsInBounds(mrep)
              THEN [mrep EXCEPT !.K_mat = WriteBlock(@, mrep.Nl, mrep.s, mrep.s2),
                               !.s = IF mrep.s + 1 < mrep.num_sec THEN mrep.s + 1 ELSE 0,
                               !.s2 = IF mrep.s + 1 < mrep.num_sec THEN mrep.s2 ELSE mrep.s2 + 1]
              ELSE [mrep EXCEPT !.pc = "undefined"]
    /\ UNCHANGED <<mainVars, besideMat>>

\* kernel.hpp:224  return K_mat
ReturnK ==
    /\ mrep.pc = "blocks"
    /\ mrep.s2 = mrep.num_sec
    /\ mrep' = [mrep EXCEPT !.pc = "done"]
    /\ UNCHANGED <<mainVars, besideMat>>

NextMatrix ==
    \/ MakeNodes
    \/ FillPhi
    \/ AllocK
    \/ FillBlock
    \/ ReturnK

SpecMatrix == InitMatrix /\ [][NextMatrix]_vars

\* C17: the matrix returned is square of size (sections of the x edge list)
\* times Nl; its entry (Nl*s + l, Nl*s2 + l2) was written exactly once, with
\* entry (l, l2) of the block of the section pair (s, s2); and when the two
\* edge lists have the same length no read leaves a vector.
C17_BlocksPlacedOnce ==
    /\ mrep.pc \in {"phi", "blocks", "done"} => mrep.num_sec = mrep.len_x - 1
    /\ mrep.pc = "done" =>
          /\ DOMAIN mrep.K_mat = (0..((mrep.len_x - 1) * mrep.Nl - 1))
                                   \X (0..((mrep.len_x - 1) * mrep.Nl - 1))
          /\ \A p \in DOMAIN mrep.K_mat :
                mrep.K_mat[p] = << [s |-> p[1] \div mrep.Nl, s2 |-> p[2] \div mrep.Nl,
                                   l |-> p[1] % mrep.Nl, l2 |-> p[2] % mrep.Nl] >>
    /\ mrep.len_x = mrep.len_y => mrep.pc # "undefined"

\* C17 happens: matrix_rep returned for two edge lists of three sections each,
\* with two Legendre degrees and two nodes per section.
C17_Witness ==
    /\ mrep.pc = "done"
    /\ mrep.len_x = MaxEdges /\ mrep.len_y = MaxEdges
    /\ mrep.Nl = 2 /\ mrep.num_local_nodes = 2
====
